---- MODULE Spec2Model ----
(***************************************************************************)
(* A model of the WebP container decoder of src/src/decoder.rs: the RIFF   *)
(* header parser, the extended chunk scan and the animation state machine  *)
(* of WebPDecoder.  The stream is a sequence of bytes; the decoder reads   *)
(* it exactly where the code reads it.                                     *)
(***************************************************************************)
EXTENDS Integers, Sequences, FiniteSets, TLC

(***************************************************************************)
(* Unsigned 32 and 64 bit integers.  A value is kept as four 16-bit limbs, *)
(* least significant first, so that sizes up to 2^32 - 1 and positions     *)
(* beyond 2^32 keep the width the code gives them.                         *)
(***************************************************************************)
B16 == 256 * 256

W(n) == <<n % B16, n \div B16, 0, 0>>

WSum(a, b) ==
  LET s1 == a[1] + b[1]
      s2 == a[2] + b[2] + (s1 \div B16)
      s3 == a[3] + b[3] + (s2 \div B16)
      s4 == a[4] + b[4] + (s3 \div B16)
  IN  [v |-> <<s1 % B16, s2 % B16, s3 % B16, s4 % B16>>, carry |-> s4 \div B16]

WAdd(a, b) == WSum(a, b).v

WLt(a, b) ==
  \/ a[4] < b[4]
  \/ a[4] = b[4] /\ a[3] < b[3]
  \/ a[4] = b[4] /\ a[3] = b[3] /\ a[2] < b[2]
  \/ a[4] = b[4] /\ a[3] = b[3] /\ a[2] = b[2] /\ a[1] < b[1]

WLe(a, b) == a = b \/ WLt(a, b)

\* a - b for a >= b
WSub(a, b) ==
  LET d1 == a[1] - b[1]
      c1 == IF d1 < 0 THEN 1 ELSE 0
      d2 == a[2] - b[2] - c1
      c2 == IF d2 < 0 THEN 1 ELSE 0
      d3 == a[3] - b[3] - c2
      c3 == IF d3 < 0 THEN 1 ELSE 0
      d4 == a[4] - b[4] - c3
  IN  <<d1 + c1 * B16, d2 + c2 * B16, d3 + c3 * B16, d4>>

IsU32(a) == a[3] = 0 /\ a[4] = 0

U32Max == <<B16 - 1, B16 - 1, 0, 0>>

UsizeMax == <<B16 - 1, B16 - 1, B16 - 1, B16 - 1>>

\* u32::saturating_add
saturating_add(a, b) == IF IsU32(WAdd(a, b)) THEN WAdd(a, b) ELSE U32Max

\* u32::saturating_sub
saturating_sub(a, b) == IF WLt(a, b) THEN W(0) ELSE WSub(a, b)

\* a + b in u32: the sum, and whether it leaves the 32 bits
U32Add(a, b) ==
  LET s == WAdd(a, b)
  IN  [v |-> <<s[1], s[2], 0, 0>>, overflow |-> ~IsU32(s)]

(***************************************************************************)
(* Options: None is the empty sequence, Some(x) the sequence <<x>>.        *)
(***************************************************************************)
None == <<>>
Some(x) == <<x>>
IsSome(o) == Len(o) = 1

(***************************************************************************)
(* The reader: a byte sequence read at a position.                         *)
(***************************************************************************)
\* n bytes are available at position pos (read_exact succeeds)
Readable(s, pos, n) ==
  /\ pos[2] = 0 /\ pos[3] = 0 /\ pos[4] = 0
  /\ pos[1] + n <= Len(s)

Bytes(s, pos, n) == SubSeq(s, pos[1] + 1, pos[1] + n)

\* the bytes a reader limited to `limit` bytes (Read::take) can deliver from pos
Take(s, pos, limit) ==
  IF pos[2] # 0 \/ pos[3] # 0 \/ pos[4] # 0 \/ pos[1] >= Len(s)
  THEN <<>>
  ELSE LET avail == Len(s) - pos[1]
           n     == IF WLt(limit, W(avail)) THEN limit[1] ELSE avail
       IN  SubSeq(s, pos[1] + 1, pos[1] + n)

LE16(b) == b[1] + 256 * b[2]
LE24(b) == b[1] + 256 * b[2] + 65536 * b[3]
LE32(b) == <<b[1] + 256 * b[2], b[3] + 256 * b[4], 0, 0>>

(***************************************************************************)
(* WebPRiffChunk                                                           *)
(***************************************************************************)
Known(name) == [k |-> name, u |-> <<>>]
Unknown(fourcc) == [k |-> "Unknown", u |-> fourcc]

RIFF == Known("RIFF")
WEBP == Known("WEBP")
VP8  == Known("VP8")
VP8L == Known("VP8L")
VP8X == Known("VP8X")
ANIM == Known("ANIM")
ANMF == Known("ANMF")
ALPH == Known("ALPH")
ICCP == Known("ICCP")
EXIF == Known("EXIF")
XMP  == Known("XMP")

\* the four bytes of each tag
FourCC ==
  [RIFF |-> <<82, 73, 70, 70>>,
   WEBP |-> <<87, 69, 66, 80>>,
   VP8 |-> <<86, 80, 56, 32>>,
   VP8L |-> <<86, 80, 56, 76>>,
   VP8X |-> <<86, 80, 56, 88>>,
   ANIM |-> <<65, 78, 73, 77>>,
   ANMF |-> <<65, 78, 77, 70>>,
   ALPH |-> <<65, 76, 80, 72>>,
   ICCP |-> <<73, 67, 67, 80>>,
   EXIF |-> <<69, 88, 73, 70>>,
   XMP |-> <<88, 77, 80, 32>>]

from_fourcc(f) ==
  CASE f = FourCC.RIFF -> RIFF
    [] f = FourCC.WEBP -> WEBP
    [] f = FourCC.VP8  -> VP8
    [] f = FourCC.VP8L -> VP8L
    [] f = FourCC.VP8X -> VP8X
    [] f = FourCC.ANIM -> ANIM
    [] f = FourCC.ANMF -> ANMF
    [] f = FourCC.ALPH -> ALPH
    [] f = FourCC.ICCP -> ICCP
    [] f = FourCC.EXIF -> EXIF
    [] f = FourCC.XMP  -> XMP
    [] OTHER     -> Unknown(f)

to_fourcc(c) ==
  CASE c = RIFF -> FourCC.RIFF
    [] c = WEBP -> FourCC.WEBP
    [] c = VP8  -> FourCC.VP8
    [] c = VP8L -> FourCC.VP8L
    [] c = VP8X -> FourCC.VP8X
    [] c = ANIM -> FourCC.ANIM
    [] c = ANMF -> FourCC.ANMF
    [] c = ALPH -> FourCC.ALPH
    [] c = ICCP -> FourCC.ICCP
    [] c = EXIF -> FourCC.EXIF
    [] c = XMP  -> FourCC.XMP
    [] OTHER    -> c.u

is_unknown(c) == c.k = "Unknown"

\* read_fourcc: [ok, chunk]; ok = FALSE is an UnexpectedEof I/O error
read_fourcc(s, pos) ==
  IF Readable(s, pos, 4)
  THEN [ok |-> TRUE, chunk |-> from_fourcc(Bytes(s, pos, 4))]
  ELSE [ok |-> FALSE, chunk |-> RIFF]

\* no padding byte
chunk_size_unpadded(chunk_size) == chunk_size

\* line 759: chunk_size.saturating_add(chunk_size & 1)
chunk_size_rounded_of(chunk_size) == saturating_add(chunk_size, W(chunk_size[1] % 2))

\* read_chunk_header: (chunk, chunk_size, chunk_size_rounded), or an I/O error
read_chunk_header(s, pos) ==
  IF Readable(s, pos, 8)
  THEN LET chunk_size == LE32(Bytes(s, WAdd(pos, W(4)), 4))
       IN  [ok |-> TRUE, chunk |-> read_fourcc(s, pos).chunk,
            size |-> chunk_size, rounded |-> chunk_size_rounded_of(chunk_size)]
  ELSE [ok |-> FALSE, chunk |-> RIFF, size |-> W(0), rounded |-> W(0)]


(***************************************************************************)
(* The chunk index: HashMap<WebPRiffChunk, Range<u64>>                     *)
(***************************************************************************)
EmptyMap == <<>>
contains_key(m, k) == k \in DOMAIN m
insert(m, k, v) == [x \in (DOMAIN m) \cup {k} |-> IF x = k THEN v ELSE m[x]]
\* an insertion that replaces the entry of a tag already indexed
or_insert_replacing(m, k, v) == insert(m, k, v)

or_insert(m, k, v) == IF contains_key(m, k) THEN m ELSE insert(m, k, v)
Range(a, b) == [start |-> a, end |-> b]

(***************************************************************************)
(* WebPExtendedInfo and extended::read_extended_header: one flags byte,    *)
(* three reserved bytes, canvas width - 1 and canvas height - 1 in three   *)
(* bytes each.                                                             *)
(***************************************************************************)
NoInfo ==
  [animation |-> FALSE, alpha |-> FALSE, icc_profile |-> FALSE,
   exif_metadata |-> FALSE, xmp_metadata |-> FALSE,
   canvas_width |-> 0, canvas_height |-> 0, background_color |-> <<0, 0, 0, 0>>]

Bit(byte, i) == (byte \div (2 ^ i)) % 2 = 1

\* canvas_width * canvas_height does not fit 32 bits (both below 2^24 + 1)
ProductExceedsU32(w, h) ==
  LET a == w \div 4096
      b == w % 4096
      c == h \div 4096
      d == h % 4096
  IN  \/ a * c >= 256
      \/ a * c * 4096 + a * d + b * c + ((b * d) \div 4096) >= 1048576

read_3_bytes(s, pos) ==
  IF Readable(s, pos, 3)
  THEN [ok |-> TRUE, v |-> LE24(Bytes(s, pos, 3))]
  ELSE [ok |-> FALSE, v |-> 0]

read_extended_header(s, pos) ==
  IF ~Readable(s, pos, 10)
  THEN [err |-> "IoError", info |-> NoInfo]
  ELSE LET b     == Bytes(s, pos, 10)
           flags == b[1]
           w     == LE24(SubSeq(b, 5, 7)) + 1
           h     == LE24(SubSeq(b, 8, 10)) + 1
       IN  IF ProductExceedsU32(w, h)
           THEN [err |-> "ImageTooLarge", info |-> NoInfo]
           ELSE [err |-> "",
                 info |-> [animation |-> Bit(flags, 1), alpha |-> Bit(flags, 4),
                           icc_profile |-> Bit(flags, 5),
                           exif_metadata |-> Bit(flags, 3),
                           xmp_metadata |-> Bit(flags, 2),
                           canvas_width |-> w, canvas_height |-> h,
                           background_color |-> <<0, 0, 0, 0>>]]

(***************************************************************************)
(* AnimationState                                                          *)
(***************************************************************************)
AnimationDefault ==
  [next_frame |-> 0, loops_before_done |-> None, next_frame_start |-> W(0),
   dispose_next_frame |-> TRUE, canvas |-> None]

(***************************************************************************)
(* WebPDecoder::read_chunk                                                 *)
(***************************************************************************)
\* read_chunk without the test of lines 478-480
read_chunk_unlimited(s, chunks, chunk, max_size) ==
  IF ~contains_key(chunks, chunk)
  THEN [err |-> "", data |-> None]
  ELSE LET range == chunks[chunk]
           len   == WSub(range.end, range.start)
       IN  IF len[2] = 0 /\ len[3] = 0 /\ len[4] = 0
              /\ Readable(s, range.start, len[1])
           THEN [err |-> "", data |-> Some(Bytes(s, range.start, len[1]))]
           ELSE [err |-> "IoError", data |-> None]

read_chunk(s, chunks, chunk, max_size) ==
  IF ~contains_key(chunks, chunk)
  THEN [err |-> "", data |-> None]
  ELSE LET range == chunks[chunk]
           len   == WSub(range.end, range.start)
       IN  IF WLt(max_size, len)
           THEN [err |-> "MemoryLimitExceeded", data |-> None]
           ELSE IF len[2] = 0 /\ len[3] = 0 /\ len[4] = 0
                   /\ Readable(s, range.start, len[1])
                THEN [err |-> "", data |-> Some(Bytes(s, range.start, len[1]))]
                ELSE [err |-> "IoError", data |-> None]

(***************************************************************************)
(* WebPDecoder::read_data.  The result holds the decoder's fields as the   *)
(* function leaves them, the error it returns ("" for Ok), whether it      *)
(* panicked, and two observations of its locals: `scan`, one entry per     *)
(* chunk the extended scan indexed (the header position, what was read     *)
(* there and the value of `position` afterwards), and `validated`, whether *)
(* the flag/chunk cross-validation was reached.                            *)
(***************************************************************************)
Fields0 ==
  [err |-> "", panic |-> FALSE, width |-> 0, height |-> 0, num_frames |-> 0,
   animation |-> AnimationDefault, kind |-> "Lossy", info |-> NoInfo,
   is_lossy |-> FALSE, chunks |-> EmptyMap, scan |-> <<>>, validated |-> FALSE]

Fail(f, e) == [f EXCEPT !.err = e]

\* the 16-bit field taken whole
lossy_dimension_unmasked(v) == v

\* lines 280-281: w & 0x3FFF
lossy_dimension(v) == v % 16384

\* lines 261-286
read_data_lossy(s, f, start, chunk_size) ==
  IF ~Readable(s, start, 3) THEN Fail(f, "IoError")
  ELSE IF Bytes(s, start, 3)[1] % 2 # 0 THEN Fail(f, "UnsupportedFeature")
  ELSE IF ~Readable(s, start, 6) THEN Fail(f, "IoError")
  ELSE IF Bytes(s, WAdd(start, W(3)), 3) # <<157, 1, 42>> THEN Fail(f, "Vp8MagicInvalid")
  ELSE IF ~Readable(s, start, 10) THEN Fail(f, "IoError")
  ELSE [f EXCEPT !.width = lossy_dimension(LE16(Bytes(s, WAdd(start, W(6)), 2))),
                 !.height = lossy_dimension(LE16(Bytes(s, WAdd(start, W(8)), 2))),
                 !.chunks = insert(f.chunks, VP8, Range(start, WAdd(start, chunk_size))),
                 !.kind = "Lossy", !.is_lossy = TRUE]

\* line 299: (1 + header) & 0x3FFF
lossless_width(header) == (1 + header[1]) % 16384

\* line 300: (1 + (header >> 14)) & 0x3FFF
lossless_height(header) == (1 + (header[1] \div 16384) + 4 * header[2]) % 16384

\* lines 293-303
read_data_lossless_header(f, start, chunk_size, header) ==
  IF header[2] \div 8192 # 0 THEN Fail(f, "VersionNumberInvalid")
  ELSE [f EXCEPT !.width = lossless_width(header),
                 !.height = lossless_height(header),
                 !.chunks = insert(f.chunks, VP8L, Range(start, WAdd(start, chunk_size))),
                 !.kind = "Lossless"]

\* lines 287-304
read_data_lossless(s, f, start, chunk_size) ==
  IF ~Readable(s, start, 1) THEN Fail(f, "IoError")
  ELSE IF Bytes(s, start, 1)[1] # 47 THEN Fail(f, "LosslessSignatureInvalid")
  ELSE IF ~Readable(s, start, 5) THEN Fail(f, "IoError")
  ELSE read_data_lossless_header(f, start, chunk_size,
                                 LE32(Bytes(s, WAdd(start, W(1)), 4)))

\* lines 321-359: the scan loop; st = [position, chunks, num_frames, is_lossy, err, scan]
RECURSIVE scan_chunks(_, _, _)
RECURSIVE scan_header(_, _, _, _)
RECURSIVE scan_indexed(_, _, _, _, _)
RECURSIVE scan_peek(_, _, _, _)

\* lines 340-346: the header peeked inside an ANMF chunk
scan_peek(s, max_position, st1, sub) ==
  IF ~sub.ok THEN [st1 EXCEPT !.err = "IoError"]
  ELSE scan_chunks(s, max_position, [st1 EXCEPT !.is_lossy = sub.chunk \in {VP8, ALPH}])

\* lines 332-350: st is the state before the chunk was indexed, st1 after
scan_indexed(s, max_position, st, h, st1) ==
  IF h.chunk = ANMF /\ ~st.is_lossy
  THEN scan_peek(s, max_position, st1, read_chunk_header(s, WAdd(st.position, W(8))))
  ELSE scan_chunks(s, max_position, st1)

\* a scan that steps over a chunk of unknown tag
scan_header_skipping(s, max_position, st, h) ==
  IF ~h.ok THEN st
  ELSE IF is_unknown(h.chunk)
       THEN scan_chunks(s, max_position,
                        [st EXCEPT !.position = WAdd(st.position, WAdd(W(8), h.rounded))])
  ELSE scan_indexed(s, max_position, st, h,
         [st EXCEPT
            !.position = WAdd(st.position, WAdd(W(8), h.rounded)),
            !.chunks = or_insert(st.chunks, h.chunk,
                                 Range(WAdd(st.position, W(8)),
                                       WAdd(WAdd(st.position, W(8)), h.size))),
            !.scan = Append(st.scan,
                            [pos |-> st.position, chunk |-> h.chunk, size |-> h.size,
                             rounded |-> h.rounded,
                             next |-> WAdd(st.position, WAdd(W(8), h.rounded))]),
            !.num_frames = IF h.chunk = ANMF THEN st.num_frames + 1 ELSE st.num_frames])

\* lines 322-333
scan_header(s, max_position, st, h) ==
  IF ~h.ok THEN st
  ELSE IF is_unknown(h.chunk) THEN st
  ELSE scan_indexed(s, max_position, st, h,
         [st EXCEPT
            !.position = WAdd(st.position, WAdd(W(8), h.rounded)),
            !.chunks = or_insert(st.chunks, h.chunk,
                                 Range(WAdd(st.position, W(8)),
                                       WAdd(WAdd(st.position, W(8)), h.size))),
            !.scan = Append(st.scan,
                            [pos |-> st.position, chunk |-> h.chunk, size |-> h.size,
                             rounded |-> h.rounded,
                             next |-> WAdd(st.position, WAdd(W(8), h.rounded))]),
            !.num_frames = IF h.chunk = ANMF THEN st.num_frames + 1 ELSE st.num_frames])

\* line 321
scan_chunks(s, max_position, st) ==
  IF ~WLt(st.position, max_position) THEN st
  ELSE scan_header(s, max_position, st, read_chunk_header(s, st.position))

\* the cross-validation without the EXIF pair
chunk_missing_without_exif(info, chunks) ==
  \/ info.animation /\ (~contains_key(chunks, ANIM) \/ ~contains_key(chunks, ANMF))
  \/ info.icc_profile /\ ~contains_key(chunks, ICCP)
  \/ info.xmp_metadata /\ ~contains_key(chunks, XMP)
  \/ ~info.animation /\ (contains_key(chunks, VP8) <=> contains_key(chunks, VP8L))

\* the cross-validation asking for ANIM but not for a frame chunk
chunk_missing_without_frames(info, chunks) ==
  \/ info.animation /\ ~contains_key(chunks, ANIM)
  \/ info.icc_profile /\ ~contains_key(chunks, ICCP)
  \/ info.exif_metadata /\ ~contains_key(chunks, EXIF)
  \/ info.xmp_metadata /\ ~contains_key(chunks, XMP)
  \/ ~info.animation /\ (contains_key(chunks, VP8) <=> contains_key(chunks, VP8L))

\* lines 362-371: the condition under which open returns ChunkMissing
chunk_missing(info, chunks) ==
  \/ info.animation /\ (~contains_key(chunks, ANIM) \/ ~contains_key(chunks, ANMF))
  \/ info.icc_profile /\ ~contains_key(chunks, ICCP)
  \/ info.exif_metadata /\ ~contains_key(chunks, EXIF)
  \/ info.xmp_metadata /\ ~contains_key(chunks, XMP)
  \/ ~info.animation /\ (contains_key(chunks, VP8) <=> contains_key(chunks, VP8L))

\* lines 378-387: the six bytes of the ANIM chunk
read_data_anim_chunk(f, chunk) ==
  IF Len(chunk) < 6 THEN Fail(f, "IoError")
  ELSE IF ~contains_key(f.chunks, ANMF) THEN [f EXCEPT !.panic = TRUE]
  ELSE [f EXCEPT
          !.info.background_color = SubSeq(chunk, 1, 4),
          !.animation.loops_before_done =
             IF LE16(SubSeq(chunk, 5, 6)) = 0 THEN None
             ELSE Some(LE16(SubSeq(chunk, 5, 6))),
          !.animation.next_frame_start = f.chunks[ANMF].start]

\* lines 377-393
read_data_anim_result(f, r) ==
  IF r.err = "MemoryLimitExceeded" THEN Fail(f, "InvalidChunkSize")
  ELSE IF r.err # "" THEN Fail(f, r.err)
  ELSE IF ~IsSome(r.data) THEN Fail(f, "ChunkMissing")
  ELSE read_data_anim_chunk(f, r.data[1])

\* lines 376-394: decode the ANIM chunk
read_data_anim(s, f) == read_data_anim_result(f, read_chunk(s, f.chunks, ANIM, W(6)))

\* lines 399-414: index the sub-chunks of the first frame.  The headers are
\* read where the reader stands (it is not moved to `position`).
RECURSIVE first_frame_chunks(_, _, _, _, _, _)
RECURSIVE first_frame_chunk(_, _, _, _, _, _, _)

\* lines 404-412
first_frame_chunk(s, f, range, reader, position, i, h) ==
  IF ~h.ok THEN Fail(f, "IoError")
  ELSE IF WLt(range.end, WAdd(WAdd(position, WAdd(W(8), h.rounded)), W(8)))
  THEN [f EXCEPT !.chunks = or_insert(f.chunks, h.chunk,
                               Range(WAdd(position, W(8)),
                                     WAdd(WAdd(position, W(8)), h.size)))]
  ELSE first_frame_chunks(s,
         [f EXCEPT !.chunks = or_insert(f.chunks, h.chunk,
                               Range(WAdd(position, W(8)),
                                     WAdd(WAdd(position, W(8)), h.size)))],
         range, WAdd(reader, W(8)), WAdd(position, WAdd(W(8), h.rounded)), i + 1)

first_frame_chunks(s, f, range, reader, position, i) ==
  IF i = 2 THEN f
  ELSE first_frame_chunk(s, f, range, reader, position, i, read_chunk_header(s, reader))

\* line 416
read_data_extended_done(f) == IF f.err # "" THEN f ELSE [f EXCEPT !.kind = "Extended"]

\* lines 396-414
read_data_first_frame(s, f) ==
  IF f.err # "" \/ f.panic THEN f
  ELSE read_data_extended_done(
         IF contains_key(f.chunks, ANMF)
         THEN first_frame_chunks(s, f, f.chunks[ANMF], f.chunks[ANMF].start,
                                 f.chunks[ANMF].start, 0)
         ELSE f)

\* lines 362-394
read_data_validate(s, f) ==
  IF chunk_missing(f.info, f.chunks) THEN Fail(f, "ChunkMissing")
  ELSE read_data_first_frame(s, IF f.info.animation THEN read_data_anim(s, f) ELSE f)

\* lines 321-360: the fields after the scan
read_data_scanned(s, f, st) ==
  IF st.err # ""
  THEN Fail([f EXCEPT !.chunks = st.chunks, !.scan = st.scan,
                      !.num_frames = st.num_frames, !.is_lossy = st.is_lossy],
            st.err)
  ELSE read_data_validate(s,
         [f EXCEPT !.chunks = st.chunks, !.scan = st.scan,
                   !.num_frames = st.num_frames,
                   !.is_lossy = st.is_lossy \/ contains_key(st.chunks, VP8),
                   !.validated = TRUE])

\* lines 306-312
read_data_extended_info(s, f, x, position, riff_size) ==
  IF x.err # "" THEN Fail(f, x.err)
  ELSE read_data_scanned(s,
         [f EXCEPT !.width = x.info.canvas_width, !.height = x.info.canvas_height,
                   !.info = x.info],
         scan_chunks(s, WAdd(position, saturating_sub(riff_size, W(12))),
                     [position |-> position, chunks |-> f.chunks, num_frames |-> 0,
                      is_lossy |-> f.is_lossy, err |-> "", scan |-> <<>>]))

\* lines 305-417
read_data_extended(s, f, start, chunk_size_rounded, riff_size) ==
  read_data_extended_info(s, f, read_extended_header(s, start),
                          WAdd(start, chunk_size_rounded), riff_size)

\* lines 248-419: the RIFF header, the signature and the first chunk header
read_data_headers(s, f, riff, webp, h) ==
  IF ~riff.ok THEN Fail(f, "IoError")
  ELSE IF riff.chunk # RIFF THEN Fail(f, "ChunkHeaderInvalid")
  ELSE IF ~webp.ok THEN Fail(f, "IoError")
  ELSE IF webp.chunk # WEBP THEN Fail(f, "WebpSignatureInvalid")
  ELSE IF ~h.ok THEN Fail(f, "IoError")
  ELSE CASE h.chunk = VP8  -> read_data_lossy(s, f, W(20), h.size)
         [] h.chunk = VP8L -> read_data_lossless(s, f, W(20), h.size)
         [] h.chunk = VP8X -> read_data_extended(s, f, W(20), h.rounded, riff.size)
         [] OTHER          -> Fail(f, "ChunkHeaderInvalid")

\* lines 247-422
read_data(s) ==
  read_data_headers(s, Fields0, read_chunk_header(s, W(0)), read_fourcc(s, W(8)),
                    read_chunk_header(s, W(12)))

(***************************************************************************)
(* The pixel decoders, the alpha reader and the compositor are outside     *)
(* decoder.rs.  They are modelled by their contract: a decoder is given    *)
(* the bytes its bounded reader can deliver and yields a frame of known    *)
(* width and height, or fails.  The stand-in codecs read the real header   *)
(* layouts and then one colour that fills the frame.                       *)
(***************************************************************************)
RECURSIVE Repeat(_, _)
Repeat(px, n) == IF n <= 0 THEN <<>> ELSE px \o Repeat(px, n - 1)

Zeros(n) == [i \in 1 .. n |-> 0]

\* Vp8Decoder::decode_frame: frame tag (3), magic (3), width, height (2 + 2), colour (3)
Vp8Decoder_decode_frame(data) ==
  IF Len(data) < 3 THEN [err |-> "IoError", width |-> 0, height |-> 0, px |-> <<>>]
  ELSE IF data[1] % 2 # 0
       THEN [err |-> "UnsupportedFeature", width |-> 0, height |-> 0, px |-> <<>>]
  ELSE IF Len(data) < 6 THEN [err |-> "IoError", width |-> 0, height |-> 0, px |-> <<>>]
  ELSE IF SubSeq(data, 4, 6) # <<157, 1, 42>>
       THEN [err |-> "Vp8MagicInvalid", width |-> 0, height |-> 0, px |-> <<>>]
  ELSE IF Len(data) < 13 THEN [err |-> "IoError", width |-> 0, height |-> 0, px |-> <<>>]
  ELSE [err |-> "", width |-> LE16(SubSeq(data, 7, 8)) % 16384,
        height |-> LE16(SubSeq(data, 9, 10)) % 16384, px |-> SubSeq(data, 11, 13)]

\* LosslessDecoder::decode_frame: signature (1), header (4), colour (4)
LosslessDecoder_decode_frame(data) ==
  IF Len(data) < 1 THEN [err |-> "IoError", width |-> 0, height |-> 0, px |-> <<>>]
  ELSE IF data[1] # 47
       THEN [err |-> "LosslessSignatureInvalid", width |-> 0, height |-> 0, px |-> <<>>]
  ELSE IF Len(data) < 5 THEN [err |-> "IoError", width |-> 0, height |-> 0, px |-> <<>>]
  ELSE LET header == LE32(SubSeq(data, 2, 5)) IN
       IF header[2] \div 8192 # 0
       THEN [err |-> "VersionNumberInvalid", width |-> 0, height |-> 0, px |-> <<>>]
       ELSE IF Len(data) < 9
       THEN [err |-> "BitStreamError", width |-> 0, height |-> 0, px |-> <<>>]
       ELSE [err |-> "", width |-> 1 + (header[1] % 16384),
             height |-> 1 + (((header[1] \div 16384) + 4 * header[2]) % 16384),
             px |-> SubSeq(data, 6, 9)]

\* Frame::fill_rgb and Frame::fill_rgba into a buffer of n pixels
fill_rgb(frame, n) == Repeat(SubSeq(frame.px, 1, 3), n)
fill_rgba(frame, n) ==
  Repeat(IF Len(frame.px) = 4 THEN frame.px ELSE frame.px \o <<255>>, n)

\* extended::read_alpha_chunk: an info byte, then width * height residuals
read_alpha_chunk(data, width, height) ==
  IF Len(data) < 1 + width * height
  THEN [err |-> "IoError", filtering_method |-> 0, data |-> <<>>]
  ELSE [err |-> "", filtering_method |-> (data[1] \div 4) % 4,
        data |-> SubSeq(data, 2, 1 + width * height)]

Clamp255(v) == IF v < 0 THEN 0 ELSE IF v > 255 THEN 255 ELSE v

\* extended::get_alpha_predictor: predicted alpha of pixel (x, y) from the
\* alpha values already reconstructed in the rgba buffer
get_alpha_predictor(x, y, width, method, rgba) ==
  LET A(i, j)  == rgba[(j * width + i) * 4 + 4]
      left     == IF x = 0 /\ y = 0 THEN 0 ELSE IF x = 0 THEN A(x, y - 1) ELSE A(x - 1, y)
      top      == IF x = 0 /\ y = 0 THEN 0 ELSE IF y = 0 THEN A(x - 1, y) ELSE A(x, y - 1)
      top_left == IF x = 0 /\ y = 0 THEN 0
                  ELSE IF x = 0 THEN A(x, y - 1)
                  ELSE IF y = 0 THEN A(x - 1, y)
                  ELSE A(x - 1, y - 1)
  IN  CASE method = 0 -> 0
        [] method = 1 -> left
        [] method = 2 -> top
        [] OTHER      -> Clamp255(left + top - top_left)

\* the alpha loop of read_frame (lines 681-698): n pixels in raster order
RECURSIVE apply_alpha(_, _, _, _, _)
apply_alpha(rgba, alpha, width, n, i) ==
  IF i >= n THEN rgba
  ELSE LET x == i % width
           y == i \div width
           a == (get_alpha_predictor(x, y, width, alpha.filtering_method, rgba)
                 + alpha.data[i + 1]) % 256
       IN  apply_alpha([rgba EXCEPT ![i * 4 + 4] = a], alpha, width, n, i + 1)

\* source over destination, 8-bit integer arithmetic
blend(src, dst) ==
  LET sa == src[4]
      da == (dst[4] * (255 - sa)) \div 255
      oa == sa + da
      C(i) == IF oa = 0 THEN 0 ELSE (src[i] * sa + dst[i] * da) \div oa
  IN  <<C(1), C(2), C(3), oa>>

\* extended::composite_frame
composite_frame(canvas, canvas_width, canvas_height, clear_color, frame, frame_x, frame_y, frame_width, frame_height, frame_has_alpha, use_alpha_blending) ==
  LET Px(i) ==
        LET x   == i % canvas_width
            y   == i \div canvas_width
            old == SubSeq(canvas, 4 * i + 1, 4 * i + 4)
        IN  IF x < frame_x \/ x >= frame_x + frame_width
               \/ y < frame_y \/ y >= frame_y + frame_height
            THEN old
            ELSE LET j   == (y - frame_y) * frame_width + (x - frame_x)
                     src == IF frame_has_alpha
                            THEN SubSeq(frame, 4 * j + 1, 4 * j + 4)
                            ELSE SubSeq(frame, 3 * j + 1, 3 * j + 3) \o <<255>>
                     dst == IF IsSome(clear_color) THEN clear_color[1] ELSE old
                 IN  IF ~use_alpha_blending \/ dst[4] = 0 \/ src[4] = 255 THEN src
                     ELSE IF src[4] = 0 THEN dst
                     ELSE blend(src, dst)
      RECURSIVE Pixels(_)
      Pixels(i) == IF 4 * i >= Len(canvas) THEN <<>>
                   ELSE Px(i) \o Pixels(i + 1)
  IN  Pixels(0)

(***************************************************************************)
(* The getters                                                             *)
(***************************************************************************)
has_animation(d) == d.kind = "Extended" /\ d.info.animation

has_alpha(d) ==
  CASE d.kind = "Lossy"    -> FALSE
    [] d.kind = "Lossless" -> TRUE
    [] OTHER               -> d.info.alpha

output_buffer_size(d) == d.width * d.height * (IF has_alpha(d) THEN 4 ELSE 3)

dimensions(d) == <<d.width, d.height>>

(***************************************************************************)
(* WebPDecoder::read_image.  The result is "Ok", "Err" or "Panic", with    *)
(* the caller's buffer as the call leaves it.                              *)
(***************************************************************************)
ImageResult(res, err, buf) == [res |-> res, err |-> err, buf |-> buf]

\* lines 537-570: the opaque frame, with the alpha plane of the indexed ALPH
\* chunk written over it when the container has alpha
read_image_alpha(s, d, buf, frame) ==
  IF ~has_alpha(d)
  THEN ImageResult("Ok", "", fill_rgb(frame, frame.width * frame.height))
  ELSE IF ~contains_key(d.chunks, ALPH)
       THEN ImageResult("Err", "ChunkMissing", fill_rgba(frame, frame.width * frame.height))
  ELSE LET range       == d.chunks[ALPH]
           alpha_chunk == read_alpha_chunk(Take(s, range.start, WSub(range.end, range.start)),
                                           d.width, d.height)
           rgba        == fill_rgba(frame, frame.width * frame.height)
       IN  IF alpha_chunk.err # "" THEN ImageResult("Err", alpha_chunk.err, rgba)
           ELSE ImageResult("Ok", "",
                  apply_alpha(rgba, alpha_chunk, frame.width,
                              frame.width * frame.height, 0))

\* lines 525-535
read_image_lossy(s, d, buf, frame) ==
  IF frame.err # "" THEN ImageResult("Err", frame.err, buf)
  ELSE IF frame.width # d.width \/ frame.height # d.height
       THEN ImageResult("Err", "InconsistentImageSizes", buf)
  ELSE read_image_alpha(s, d, buf, frame)

\* lines 516-523: fill_rgba writes the whole pixels the buffer has room for
read_image_lossless(d, buf, frame) ==
  IF frame.err # "" THEN ImageResult("Err", frame.err, buf)
  ELSE IF frame.width # d.width \/ frame.height # d.height
       THEN ImageResult("Err", "InconsistentImageSizes", buf)
  ELSE ImageResult("Ok", "",
         fill_rgba(frame, Len(buf) \div 4)
         \o SubSeq(buf, 4 * (Len(buf) \div 4) + 1, Len(buf)))

\* lines 513-574
read_image(s, d, buf) ==
  IF Len(buf) # output_buffer_size(d) THEN ImageResult("Panic", "", buf)
  ELSE IF contains_key(d.chunks, VP8L)
       THEN read_image_lossless(d, buf,
              LosslessDecoder_decode_frame(
                Take(s, d.chunks[VP8L].start,
                     WSub(d.chunks[VP8L].end, d.chunks[VP8L].start))))
  ELSE IF ~contains_key(d.chunks, VP8)
       THEN ImageResult("Err", "ChunkMissing", buf)
  ELSE read_image_lossy(s, d, buf,
         Vp8Decoder_decode_frame(
           Take(s, d.chunks[VP8].start,
                WSub(d.chunks[VP8].end, d.chunks[VP8].start))))

(***************************************************************************)
(* WebPDecoder::read_frame.  `oc` says whether the build checks integer    *)
(* overflow (it panics) or lets it wrap.  The result is "None", "Some",    *)
(* "Err" or "Panic", with the animation state and the caller's buffer as   *)
(* the call leaves them.                                                   *)
(***************************************************************************)
FrameResult(res, err, duration, animation, buf) ==
  [res |-> res, err |-> err, duration |-> duration, animation |-> animation, buf |-> buf]

\* return Err(e): self.animation and the buffer are as they are
FrameErr(d, buf, e) == FrameResult("Err", e, 0, d.animation, buf)

SubErr(e) == [res |-> "Err", err |-> e, frame |-> <<>>, has_alpha |-> FALSE]
SubPanic == [res |-> "Panic", err |-> "", frame |-> <<>>, has_alpha |-> FALSE]
SubOk(frame, a) == [res |-> "Ok", err |-> "", frame |-> frame, has_alpha |-> a]

\* lines 678-700: the opaque frame with the alpha plane written over it
read_frame_alpha_merge(alpha_chunk, frame, declared, decoded) ==
  IF decoded > declared THEN SubPanic
  ELSE SubOk(apply_alpha(fill_rgba(frame, decoded) \o Zeros(4 * (declared - decoded)),
                         alpha_chunk, frame.width, decoded, 0),
             TRUE)

\* lines 675-678
read_frame_alpha_frame(alpha_chunk, frame, fr) ==
  IF frame.err # "" THEN SubErr(frame.err)
  ELSE read_frame_alpha_merge(alpha_chunk, frame, fr.width * fr.height,
                              frame.width * frame.height)

\* lines 670-675: chunk_size + next_chunk_size + 40 > anmf_size
read_frame_alpha_sizes(s, next_chunk_start, h, fr, oc, alpha_chunk, t1, t2) ==
  IF (t1.overflow \/ t2.overflow) /\ oc THEN SubPanic
  ELSE IF WLt(fr.anmf_size, t2.v) THEN SubErr("ChunkHeaderInvalid")
  ELSE read_frame_alpha_frame(alpha_chunk,
         Vp8Decoder_decode_frame(Take(s, WAdd(next_chunk_start, W(8)), h.size)), fr)

\* lines 666-671
read_frame_alpha_next(s, next_chunk_start, h, fr, oc, alpha_chunk, nh) ==
  IF alpha_chunk.err # "" THEN SubErr(alpha_chunk.err)
  ELSE IF ~nh.ok THEN SubErr("IoError")
  ELSE read_frame_alpha_sizes(s, next_chunk_start, h, fr, oc, alpha_chunk,
                              U32Add(h.size, nh.size),
                              U32Add(U32Add(h.size, nh.size).v, W(40)))

\* lines 659-669
read_frame_alpha_checked(s, data_pos, h, fr, oc, sum40) ==
  IF sum40.overflow /\ oc THEN SubPanic
  ELSE IF WLt(sum40.v, fr.anmf_size) THEN SubErr("ChunkHeaderInvalid")
  ELSE read_frame_alpha_next(s, WAdd(data_pos, h.rounded), h, fr, oc,
                             read_alpha_chunk(Take(s, data_pos, h.size),
                                              fr.width, fr.height),
                             read_chunk_header(s, WAdd(data_pos, h.rounded)))

\* lines 658-701: an ALPH chunk followed by the opaque frame
read_frame_alpha(s, data_pos, h, fr, oc) ==
  read_frame_alpha_checked(s, data_pos, h, fr, oc, U32Add(h.rounded, W(40)))

\* lines 635-646
read_frame_lossy(raw_frame, fr) ==
  IF raw_frame.err # "" THEN SubErr(raw_frame.err)
  ELSE IF raw_frame.width # fr.width \/ raw_frame.height # fr.height
       THEN SubErr("InconsistentImageSizes")
  ELSE SubOk(fill_rgb(raw_frame, fr.width * fr.height), FALSE)

\* lines 647-657
read_frame_lossless(frame, fr) ==
  IF frame.err # "" THEN SubErr(frame.err)
  ELSE IF frame.width # fr.width \/ frame.height # fr.height
       THEN SubErr("InconsistentImageSizes")
  ELSE SubOk(fill_rgba(frame, fr.width * fr.height), TRUE)

\* lines 629-703
read_frame_chunk(s, data_pos, fr, oc, h, sum32) ==
  IF ~h.ok THEN SubErr("IoError")
  ELSE IF sum32.overflow /\ oc THEN SubPanic
  ELSE IF WLt(sum32.v, fr.anmf_size) THEN SubErr("ChunkHeaderInvalid")
  ELSE CASE h.chunk = VP8 ->
              read_frame_lossy(Vp8Decoder_decode_frame(Take(s, data_pos, h.size)), fr)
         [] h.chunk = VP8L ->
              read_frame_lossless(LosslessDecoder_decode_frame(Take(s, data_pos, h.size)),
                                  fr)
         [] h.chunk = ALPH -> read_frame_alpha(s, data_pos, h, fr, oc)
         [] OTHER -> SubErr("ChunkHeaderInvalid")

\* lines 628-703: the frame's bitstream, p0 being the position of the ANMF header
read_frame_bitstream(s, p0, fr, oc) ==
  read_frame_chunk(s, WAdd(p0, W(32)), fr, oc,
                   read_chunk_header(s, WAdd(p0, W(24))),
                   U32Add(read_chunk_header(s, WAdd(p0, W(24))).rounded, W(32)))

\* a cursor that never finishes
loops_never_done(animation) == FALSE

\* line 586
loops_done(animation) == animation.loops_before_done = Some(0)

\* a wraparound that starts the next loop without counting the finished one
wraparound_keeping_loops(d, a) ==
  IF a.next_frame >= d.num_frames
  THEN [a EXCEPT
          !.next_frame = 0,
          !.next_frame_start = d.chunks[ANMF].start,
          !.dispose_next_frame = TRUE]
  ELSE a

\* lines 726-733: the cursor wraps around after the last frame
wraparound(d, a) ==
  IF a.next_frame >= d.num_frames
  THEN [a EXCEPT
          !.next_frame = 0,
          !.loops_before_done =
             IF IsSome(a.loops_before_done)
             THEN Some(a.loops_before_done[1] - 1)
             ELSE None,
          !.next_frame_start = d.chunks[ANMF].start,
          !.dispose_next_frame = TRUE]
  ELSE a

\* a cursor that steps past the last frame without wrapping around
advance_without_wraparound(d, canvas, anmf_size, dispose) ==
  [d.animation EXCEPT
     !.canvas = Some(canvas),
     !.dispose_next_frame = dispose,
     !.next_frame_start = WAdd(d.animation.next_frame_start, WAdd(anmf_size, W(8))),
     !.next_frame = d.animation.next_frame + 1]

\* lines 722-733: the cursor after a composited frame
advance(d, canvas, anmf_size, dispose) ==
  wraparound(d, [d.animation EXCEPT
                   !.canvas = Some(canvas),
                   !.dispose_next_frame = dispose,
                   !.next_frame_start = WAdd(d.animation.next_frame_start,
                                             WAdd(anmf_size, W(8))),
                   !.next_frame = d.animation.next_frame + 1])

\* line 735: buf.copy_from_slice(canvas)
read_frame_copy(buf, duration, next) ==
  IF Len(buf) # Len(next.canvas[1])
  THEN FrameResult("Panic", "", 0, next, buf)
  ELSE FrameResult("Some", "", duration, next, next.canvas[1])

\* line 706: self.width * self.height * 4, a product of u32 values; the value
\* is the product modulo 2^32 (width * height itself fits 32 bits)
canvas_len(w, h) ==
  LET a == w \div 32768
      b == w % 32768
      c == h \div 32768
      e == h % 32768
  IN  [v |-> 4 * ((((a * e + b * c) % 32768) * 32768 + b * e) % 1073741824),
       overflow |-> ProductExceedsU32(4 * w, h)]

\* lines 705-707: the canvas the frame is composited onto
read_frame_canvas(d) ==
  IF IsSome(d.animation.canvas) THEN d.animation.canvas[1]
  ELSE Zeros(canvas_len(d.width, d.height).v)

\* extended::composite_frame indexes the canvas slice at every pixel of the frame
frame_fits(canvas, canvas_width, fr) ==
  4 * ((fr.x + fr.width - 1) + (fr.y + fr.height - 1) * canvas_width) + 4 <= Len(canvas)

\* lines 705-720
read_frame_composite(d, fr, sub, clear_color) ==
  composite_frame(read_frame_canvas(d),
                  d.width, d.height, clear_color, sub.frame,
                  fr.x, fr.y, fr.width, fr.height, sub.has_alpha, ~Bit(fr.info, 1))

\* lines 622-626
\* the background colour whatever the frame before asked for
clear_color_always(d) == Some(d.info.background_color)

clear_color_of(d) ==
  IF d.animation.dispose_next_frame THEN Some(d.info.background_color) ELSE None

\* lines 634-737
read_frame_decoded(d, buf, fr, sub, oc) ==
  IF sub.res = "Panic" THEN FrameResult("Panic", "", 0, d.animation, buf)
  ELSE IF sub.res = "Err" THEN FrameErr(d, buf, sub.err)
  ELSE IF ~IsSome(d.animation.canvas) /\ oc /\ canvas_len(d.width, d.height).overflow
       THEN FrameResult("Panic", "", 0, d.animation, buf)
  ELSE IF ~frame_fits(read_frame_canvas(d), d.width, fr)
       THEN FrameResult("Panic", "", 0,
                        [d.animation EXCEPT !.canvas = Some(read_frame_canvas(d))], buf)
  ELSE read_frame_copy(buf, fr.duration,
         advance(d, read_frame_composite(d, fr, sub, clear_color_of(d)),
                 fr.anmf_size, Bit(fr.info, 0)))

\* the disposal flag stored before the bitstream is decoded
read_frame_info_store_first(s, d, buf, oc, fr) ==
  IF fr.info - (fr.info % 4) # 0 THEN FrameErr(d, buf, "InfoBitsInvalid")
  ELSE read_frame_decoded([d EXCEPT !.animation.dispose_next_frame = Bit(fr.info, 0)],
                          buf, fr,
                          read_frame_bitstream(s, d.animation.next_frame_start, fr, oc),
                          oc)

\* lines 610-633
read_frame_info(s, d, buf, oc, fr) ==
  IF fr.info - (fr.info % 4) # 0 THEN FrameErr(d, buf, "InfoBitsInvalid")
  ELSE read_frame_decoded(d, buf, fr,
                          read_frame_bitstream(s, d.animation.next_frame_start, fr, oc),
                          oc)

\* the frame header read without the test of lines 607-609
read_frame_rect_unchecked(s, d, buf, oc, fp, anmf_size, frame_x, frame_y, frame_width, frame_height) ==
  IF ~Readable(s, fp, 16) THEN FrameErr(d, buf, "IoError")
  ELSE read_frame_info(s, d, buf, oc,
         [anmf_size |-> anmf_size, x |-> frame_x, y |-> frame_y,
          width |-> frame_width, height |-> frame_height,
          duration |-> LE24(Bytes(s, WAdd(fp, W(12)), 3)),
          info |-> Bytes(s, WAdd(fp, W(15)), 1)[1]])

\* lines 603-611: fp is the position of the frame header
read_frame_rect(s, d, buf, oc, fp, anmf_size, frame_x, frame_y, frame_width, frame_height) ==
  IF frame_x + frame_width > d.width \/ frame_y + frame_height > d.height
  THEN FrameErr(d, buf, "FrameOutsideImage")
  ELSE IF ~Readable(s, fp, 16) THEN FrameErr(d, buf, "IoError")
  ELSE read_frame_info(s, d, buf, oc,
         [anmf_size |-> anmf_size, x |-> frame_x, y |-> frame_y,
          width |-> frame_width, height |-> frame_height,
          duration |-> LE24(Bytes(s, WAdd(fp, W(12)), 3)),
          info |-> Bytes(s, WAdd(fp, W(15)), 1)[1]])

\* lines 597-606
read_frame_anmf(s, d, buf, oc, h, fp) ==
  IF ~h.ok THEN FrameErr(d, buf, "IoError")
  ELSE IF ~(h.chunk = ANMF /\ WLe(W(32), h.size))
       THEN FrameErr(d, buf, "ChunkHeaderInvalid")
  ELSE IF ~Readable(s, fp, 12) THEN FrameErr(d, buf, "IoError")
  ELSE read_frame_rect(s, d, buf, oc, fp, h.size,
                       LE24(Bytes(s, fp, 3)) * 2,
                       LE24(Bytes(s, WAdd(fp, W(3)), 3)) * 2,
                       LE24(Bytes(s, WAdd(fp, W(6)), 3)) + 1,
                       LE24(Bytes(s, WAdd(fp, W(9)), 3)) + 1)

\* lines 583-738
read_frame(s, d, buf, oc) ==
  IF ~has_animation(d) THEN FrameResult("Panic", "", 0, d.animation, buf)
  ELSE IF loops_done(d.animation) THEN FrameResult("None", "", 0, d.animation, buf)
  ELSE read_frame_anmf(s, d, buf, oc,
                       read_chunk_header(s, d.animation.next_frame_start),
                       WAdd(d.animation.next_frame_start, W(8)))

(***************************************************************************)
(* The streams the decoder is opened on.                                   *)
(***************************************************************************)
MaxFrames == 2
MaxLoops == 2
MaxCalls == MaxFrames * MaxLoops + 2

b2(n) == <<n % 256, (n \div 256) % 256>>
b3(n) == <<n % 256, (n \div 256) % 256, (n \div 65536) % 256>>
b4(n) == <<n % 256, (n \div 256) % 256, (n \div 65536) % 256, n \div 16777216>>
Pad(p) == IF Len(p) % 2 = 1 THEN p \o <<0>> ELSE p
Chunk(cc, payload) == cc \o b4(Len(payload)) \o Pad(payload)
Riff(size4, body) == FourCC.RIFF \o size4 \o FourCC.WEBP \o body
RiffFile(body) == Riff(b4(4 + Len(body)), body)

Prefixes(f) == {SubSeq(f, 1, n) : n \in 0 .. Len(f)}

\* payloads of the still-image chunks
Vp8Payload(tag0, magic, w16, h16) == <<tag0, 0, 0>> \o magic \o b2(w16) \o b2(h16) \o <<9, 8, 7>>
Vp8lPayload(sig, wm1, hm1, version) ==
  LET v == wm1 + hm1 * 16384
  IN  <<sig, v % 256, (v \div 256) % 256, (v \div 65536) % 256,
        (v \div 16777216) + 32 * version>> \o <<1, 2, 3, 255>>

Vp8Magic == <<157, 1, 42>>
LossyFields == {1, 2, 16383, 16384 + 5, 65535}
LosslessFields == {0, 1, 16382, 16383}

\* the sample of tests::add_with_overflow_size (lines 770-777)
add_with_overflow_size ==
  <<82, 73, 70, 70, 175, 55, 128, 71, 87, 69, 66, 80, 108, 100,
    0, 0, 255, 255, 255, 255, 251, 126, 115, 0, 6, 0, 0, 0,
    0, 0, 0, 0, 5, 0, 0, 0, 101, 101, 101, 101, 101, 101,
    64, 251, 255, 255, 101, 101, 101, 101, 101, 101, 101, 101, 101, 101,
    0, 0, 0, 0, 98, 0, 16, 0, 0, 0, 0, 0, 0, 73,
    73, 84, 85, 80, 76, 84, 89, 80, 69, 51, 55, 68, 77, 70>>

SignatureFiles ==
  { <<>>,
    SubSeq(FourCC.RIFF, 1, 3),
    FourCC.RIFF \o b4(4),
    <<82, 73, 70, 88>> \o b4(26) \o FourCC.WEBP \o Chunk(FourCC.VP8, Vp8Payload(0, Vp8Magic, 1, 1)),
    <<82, 73, 70, 88>> \o <<1, 0>>,
    Riff(b4(26), <<87, 69, 66, 88>> \o Chunk(FourCC.VP8, Vp8Payload(0, Vp8Magic, 1, 1))),
    Riff(b4(26), Chunk(FourCC.ANIM, <<0, 0, 0, 0, 1, 0>>)),
    add_with_overflow_size }

LossyFiles ==
  { RiffFile(Chunk(FourCC.VP8, Vp8Payload(t, m, w, h))) :
      t \in {0, 1}, m \in {Vp8Magic, <<157, 1, 43>>}, w \in LossyFields, h \in {1, 16384 + 5} }
  \cup { RiffFile(Chunk(FourCC.VP8, Vp8Payload(0, Vp8Magic, w, h))) : w \in {2}, h \in LossyFields }

LosslessFiles ==
  { RiffFile(Chunk(FourCC.VP8L, Vp8lPayload(47, a, b, 0))) : a \in LosslessFields, b \in LosslessFields }
  \cup { RiffFile(Chunk(FourCC.VP8L, Vp8lPayload(sg, 1, 1, v))) : sg \in {47, 48}, v \in {0, 1} }

\* the VP8X chunk: flags, reserved, canvas width - 1, canvas height - 1
Vp8xFlags(F) ==
  (IF "anim" \in F THEN 2 ELSE 0) + (IF "xmp" \in F THEN 4 ELSE 0)
  + (IF "exif" \in F THEN 8 ELSE 0) + (IF "alpha" \in F THEN 16 ELSE 0)
  + (IF "icc" \in F THEN 32 ELSE 0)
Vp8x(F, cw, ch) == Chunk(FourCC.VP8X, <<Vp8xFlags(F), 0, 0, 0>> \o b3(cw - 1) \o b3(ch - 1))

\* an ANMF payload: the frame header and one sub-chunk
FrameHeader(x, y, w, h, dur, flags) ==
  b3(x \div 2) \o b3(y \div 2) \o b3(w - 1) \o b3(h - 1) \o b3(dur) \o <<flags>>
LosslessSub(w, h) == Chunk(FourCC.VP8L, Vp8lPayload(47, w - 1, h - 1, 0))
LossySub(w, h) == Chunk(FourCC.VP8, Vp8Payload(0, Vp8Magic, w, h))

FrameKinds == {"L", "Ld", "V", "X", "S"}
FramePayload(kind) ==
  CASE kind = "L"  -> FrameHeader(0, 0, 1, 1, 10, 0) \o LosslessSub(1, 1)
    [] kind = "Ld" -> FrameHeader(2, 0, 1, 1, 20, 1) \o LosslessSub(1, 1)
    [] kind = "V"  -> FrameHeader(0, 0, 1, 1, 30, 2) \o LossySub(1, 1)
    [] kind = "S"  -> FrameHeader(0, 0, 1, 1, 50, 0) \o LosslessSub(2, 1)
    [] OTHER       -> FrameHeader(0, 0, 1, 1, 40, 4) \o LosslessSub(1, 1)

\* A frame chunk.  `nested` puts a second ANMF header in front of the frame
\* header, inside the payload of the chunk.
FrameChunk(kind, nested) ==
  IF nested THEN Chunk(FourCC.ANMF, Chunk(FourCC.ANMF, FramePayload(kind)))
  ELSE Chunk(FourCC.ANMF, FramePayload(kind))

RECURSIVE FrameChunks(_, _)
FrameChunks(kinds, nested) ==
  IF kinds = <<>> THEN <<>>
  ELSE FrameChunk(Head(kinds), nested) \o FrameChunks(Tail(kinds), FALSE)

AnimChunk(loops) == Chunk(FourCC.ANIM, <<10, 20, 30, 255>> \o b2(loops))

FrameSeqs == UNION {[1 .. n -> FrameKinds] : n \in 1 .. MaxFrames}

AnimShapes == {<<1, 1, {"anim"}>>, <<1, 1, {"anim", "alpha"}>>,
               <<3, 1, {"anim"}>>, <<3, 1, {"anim", "alpha"}>>}

AnimFile(shape, loops, kinds, nested) ==
  RiffFile(Vp8x(shape[3], shape[1], shape[2]) \o AnimChunk(loops)
           \o FrameChunks(kinds, nested))

AnimFiles ==
  { AnimFile(sh, l, ks, n) :
      sh \in AnimShapes, l \in 0 .. MaxLoops, ks \in FrameSeqs, n \in BOOLEAN }

\* extended containers for the cross-validation of flags and chunks
MetaChunk(name) ==
  CASE name = "ICCP" -> Chunk(FourCC.ICCP, <<1, 2, 3>>)
    [] name = "ANIM" -> AnimChunk(1)
    [] name = "ANMF" -> FrameChunk("L", TRUE)
    [] name = "VP8L" -> Chunk(FourCC.VP8L, Vp8lPayload(47, 0, 0, 0))
    [] name = "VP8"  -> Chunk(FourCC.VP8, Vp8Payload(0, Vp8Magic, 1, 1))
    [] name = "EXIF" -> Chunk(FourCC.EXIF, <<4, 5, 6, 7, 8>>)
    [] OTHER         -> Chunk(FourCC.XMP, <<9>>)

ChunkOrder == <<"ICCP", "ANIM", "ANMF", "VP8L", "VP8", "EXIF", "XMP">>

RECURSIVE MetaChunks(_, _)
MetaChunks(present, i) ==
  IF i > Len(ChunkOrder) THEN <<>>
  ELSE (IF ChunkOrder[i] \in present THEN MetaChunk(ChunkOrder[i]) ELSE <<>>)
       \o MetaChunks(present, i + 1)

Required(F) ==
  (IF "anim" \in F THEN {"ANIM", "ANMF"} ELSE {"VP8L"})
  \cup (IF "icc" \in F THEN {"ICCP"} ELSE {})
  \cup (IF "exif" \in F THEN {"EXIF"} ELSE {})
  \cup (IF "xmp" \in F THEN {"XMP"} ELSE {})

Presences(F) ==
  {Required(F)} \cup {Required(F) \ {c} : c \in Required(F)}
  \cup {Required(F) \cup {c} : c \in {"ICCP", "EXIF", "XMP", "VP8"}}

FlagSets == SUBSET {"anim", "icc", "exif", "xmp"}

FlagFiles ==
  UNION { { RiffFile(Vp8x(F, 1, 1) \o MetaChunks(P, 1)) : P \in Presences(F) } :
          F \in FlagSets }

\* declared sizes at the edge of 32 bits, odd sizes, a frame list interrupted
\* by another chunk, chunks behind a chunk of unknown tag, a tag met twice (at
\* the top level, and inside the first ANMF chunk), a canvas too large,
\* frames below the canvas or outside it with reserved flag bits set, and
\* streams cut short
Size32Max == <<255, 255, 255, 255>>

\* An animation on a 3x1 canvas whose frame, w pixels wide, holds an ALPH
\* chunk of 14 bytes and then a chunk tagged `tag` that declares 2^32 - 54
\* bytes and holds the lossy bitstream of a frame vw pixels wide: the ANMF
\* chunk declares 46 bytes and 14 + (2^32 - 54) + 40 is 2^32.
AlphaFrameFile(w, tag, vw) ==
  RiffFile(Vp8x({"anim", "alpha"}, 3, 1) \o AnimChunk(1)
           \o Chunk(FourCC.ANMF,
                    FourCC.ANMF \o b4(46) \o FrameHeader(0, 0, w, 1, 60, 0)
                    \o Chunk(FourCC.ALPH, <<0, 7, 9, 0, 0, 0, 0, 0, 0, 0, 0, 0, 0, 0>>)
                    \o tag \o <<202, 255, 255, 255>> \o Vp8Payload(0, Vp8Magic, vw, 1)))

\* An animation whose ANMF chunk declares 32 bytes while its VP8L sub-chunk
\* declares 20 bytes, or 2^32 - 1 bytes
OversizedFrameFile(size4) ==
  RiffFile(Vp8x({"anim"}, 1, 1) \o AnimChunk(1)
           \o Chunk(FourCC.ANMF,
                    FourCC.ANMF \o b4(32) \o FrameHeader(0, 0, 1, 1, 70, 0)
                    \o FourCC.VP8L \o size4 \o Vp8lPayload(47, 0, 0, 0)
                    \o <<0, 0, 0, 0, 0, 0, 0, 0, 0, 0, 0>>))

EdgeFiles ==
  { AlphaFrameFile(2, FourCC.VP8, 2), AlphaFrameFile(2, FourCC.VP8, 1),
    AlphaFrameFile(1, FourCC.VP8, 2), AlphaFrameFile(2, FourCC.XMP, 2),
    OversizedFrameFile(b4(20)), OversizedFrameFile(Size32Max),
    RiffFile(Vp8x({"exif"}, 1, 1) \o MetaChunk("VP8L")
             \o Chunk(<<65, 66, 67, 68>>, <<1, 2>>) \o MetaChunk("EXIF")),
    RiffFile(Vp8x({"exif"}, 1, 1) \o MetaChunk("VP8L") \o MetaChunk("EXIF")
             \o Chunk(FourCC.EXIF, <<1, 2>>)),
    RiffFile(Vp8x({"anim"}, 1, 1) \o AnimChunk(1)
             \o Chunk(FourCC.ANMF, Chunk(FourCC.EXIF, <<1, 2>>)) \o MetaChunk("EXIF")),
    RiffFile(Vp8x({"anim"}, 1, 1) \o AnimChunk(1) \o FrameChunk("L", TRUE)
             \o Chunk(<<65, 66, 67, 68>>, <<1, 2>>) \o FrameChunk("V", FALSE)),
    RiffFile(Vp8x({"anim"}, 1, 1) \o AnimChunk(1) \o Chunk(FourCC.ANMF, <<>>)
             \o Chunk(<<65, 66, 67, 68>>, <<1, 2>>) \o MetaChunk("EXIF")),
    RiffFile(Vp8x({"anim"}, 1, 1) \o AnimChunk(1)
             \o Chunk(FourCC.ANMF, Chunk(FourCC.ANMF, FrameHeader(0, 2, 1, 1, 80, 0)
                                                      \o LosslessSub(1, 1)))),
    RiffFile(Vp8x({"anim"}, 1, 1) \o AnimChunk(1)
             \o Chunk(FourCC.ANMF, Chunk(FourCC.ANMF, FrameHeader(2, 0, 1, 1, 80, 4)
                                                      \o LosslessSub(1, 1)))),
    Riff(Size32Max, Vp8x({"exif"}, 1, 1) \o MetaChunk("VP8L")
                    \o FourCC.EXIF \o Size32Max \o <<1, 2, 3>>),
    Riff(Size32Max, Vp8x({"exif"}, 1, 1) \o MetaChunk("VP8L")
                    \o FourCC.EXIF \o <<254, 255, 255, 255>> \o <<1, 2, 3>>),
    Riff(b4(3), Vp8x({}, 1, 1) \o MetaChunk("VP8L")),
    Riff(b4(40), Vp8x({"xmp"}, 1, 1) \o MetaChunk("VP8L") \o MetaChunk("XMP")),
    Riff(Size32Max, FourCC.VP8X \o Size32Max \o <<0, 0, 0, 0, 0, 0, 0, 0, 0, 0>>
                    \o MetaChunk("VP8L")),
    RiffFile(Vp8x({}, 16777216, 16777216) \o MetaChunk("VP8L")),
    RiffFile(Vp8x({"anim"}, 1, 1) \o Chunk(FourCC.ANIM, <<1, 2, 3, 4, 5, 0, 7>>)
             \o FrameChunk("L", TRUE)),
    RiffFile(Vp8x({"anim"}, 1, 1) \o Chunk(FourCC.ANIM, <<1, 2, 3, 4, 5>>)
             \o FrameChunk("L", TRUE)),
    RiffFile(Vp8x({"anim", "xmp"}, 1, 1) \o AnimChunk(1) \o FrameChunk("L", TRUE)
             \o MetaChunk("XMP") \o FrameChunk("V", FALSE)),
    RiffFile(Vp8x({"anim"}, 1, 1) \o AnimChunk(1) \o Chunk(FourCC.ANMF, <<>>)),
    RiffFile(Vp8x({"anim"}, 1, 1) \o AnimChunk(1) \o FourCC.ANMF \o b4(2) \o <<3>>) }
  \cup Prefixes(AnimFile(<<1, 1, {"anim", "alpha"}>>, 1, <<"L", "V">>, TRUE))
  \cup Prefixes(RiffFile(Vp8x({"exif", "xmp"}, 1, 1) \o MetaChunks({"VP8L", "EXIF", "XMP"}, 1)))

Files == SignatureFiles \cup LossyFiles \cup LosslessFiles \cup AnimFiles
         \cup FlagFiles \cup EdgeFiles

(***************************************************************************)
(* The decoder as a state machine.  `last` observes the last call: the     *)
(* operation, how it ended, the error, the duration returned, the buffer   *)
(* the caller passed in.  `calls` and `somes` count the read_frame calls   *)
(* and those that returned Some.  `cleared` is the clear colour read_frame  *)
(* passed to compositing for the last frame it returned, and `emitted`     *)
(* says of that frame whether its disposal bit was set and whether it was  *)
(* the last frame of a pass.                                               *)
(***************************************************************************)
VARIABLES stream, phase, width, height, num_frames, animation, kind, info,
          is_lossy, chunks, memory_limit, scan, validated, buf, last, calls, somes,
          cleared, emitted

vars == <<stream, phase, width, height, num_frames, animation, kind, info,
          is_lossy, chunks, memory_limit, scan, validated, buf, last, calls, somes,
          cleared, emitted>>

\* the decoder's fields as one record
D == [width |-> width, height |-> height, num_frames |-> num_frames,
      animation |-> animation, kind |-> kind, info |-> info,
      is_lossy |-> is_lossy, chunks |-> chunks]

Last(op, res, err, duration, inbuf) ==
  [op |-> op, res |-> res, err |-> err, duration |-> duration, inbuf |-> inbuf,
   out |-> None]

\* a call that returns a value or fills the caller's buffer
LastOut(op, res, err, inbuf, out) == [Last(op, res, err, 0, inbuf) EXCEPT !.out = out]

Init ==
  /\ stream \in Files
  /\ phase = "fresh"
  /\ width = 0 /\ height = 0 /\ num_frames = 0
  /\ animation = AnimationDefault
  /\ kind = "Lossy" /\ info = NoInfo /\ is_lossy = FALSE
  /\ chunks = EmptyMap
  /\ memory_limit = UsizeMax
  /\ scan = <<>> /\ validated = FALSE
  /\ buf = <<>>
  /\ last = Last("none", "", "", 0, <<>>)
  /\ calls = 0 /\ somes = 0
  /\ cleared = None /\ emitted = None

\* WebPDecoder::new (lines 231-245)
New ==
  /\ phase = "fresh"
  /\ \E f \in {read_data(stream)} :
       /\ phase' = IF f.panic THEN "panicked" ELSE IF f.err # "" THEN "failed" ELSE "open"
       /\ width' = f.width /\ height' = f.height /\ num_frames' = f.num_frames
       /\ animation' = f.animation /\ kind' = f.kind /\ info' = f.info
       /\ is_lossy' = f.is_lossy /\ chunks' = f.chunks
       /\ scan' = f.scan /\ validated' = f.validated
       /\ last' = Last("new", IF f.panic THEN "Panic" ELSE IF f.err # "" THEN "Err" ELSE "Ok",
                       f.err, 0, <<>>)
  /\ UNCHANGED <<stream, memory_limit, buf, calls, somes, cleared, emitted>>

\* the buffers a caller passes to read_frame: the one it holds, or a zeroed
\* one of output_buffer_size() bytes or of the canvas's size
InBufs ==
  IF has_animation(D)
  THEN (IF Len(buf) > 0 THEN {buf} ELSE {})
       \cup (IF canvas_len(width, height).overflow
             THEN {Zeros(canvas_len(width, height).v)}
             ELSE {Zeros(output_buffer_size(D)), Zeros(width * height * 4)})
  ELSE {<<>>}

\* WebPDecoder::read_frame (lines 583-738)
ReadFrame ==
  /\ phase = "open"
  /\ calls < MaxCalls
  /\ \E inbuf \in InBufs, oc \in BOOLEAN :
       \E r \in {read_frame(stream, D, inbuf, oc)} :
         /\ animation' = r.animation
         /\ buf' = r.buf
         /\ phase' = IF r.res = "Panic" THEN "panicked" ELSE "open"
         /\ last' = Last("read_frame", r.res, r.err, r.duration, inbuf)
         /\ calls' = calls + 1
         /\ somes' = IF r.res = "Some" THEN somes + 1 ELSE somes
         /\ cleared' = IF r.res = "Some" THEN clear_color_of(D) ELSE cleared
         /\ emitted' = IF r.res = "Some"
                       THEN Some([dispose |-> Bit(Bytes(stream,
                                                        WAdd(animation.next_frame_start, W(23)),
                                                        1)[1], 0),
                                  wrapped |-> r.animation.next_frame = 0])
                       ELSE emitted
  /\ UNCHANGED <<stream, width, height, num_frames, kind, info, is_lossy, chunks,
                 memory_limit, scan, validated>>

Next == New \/ ReadFrame

Spec == Init /\ [][Next]_vars

(***************************************************************************)
(* The other operations of an open decoder, over a smaller set of files.   *)
(***************************************************************************)
\* the largest buffer a caller of read_image passes
MaxBuf == 16

MemoryLimits == {W(2), W(4), UsizeMax}

Colors == {<<1, 2, 3, 4>>}

\* WebPDecoder::read_image (lines 513-574), called with a zeroed buffer of
\* output_buffer_size() bytes or of one byte more
ReadImage ==
  /\ phase = "open"
  /\ width <= MaxBuf /\ height <= MaxBuf /\ output_buffer_size(D) <= MaxBuf
  /\ \E n \in {output_buffer_size(D), output_buffer_size(D) + 1} :
       \E r \in {read_image(stream, D, Zeros(n))} :
         /\ phase' = IF r.res = "Panic" THEN "panicked" ELSE "open"
         /\ last' = LastOut("read_image", r.res, r.err, Zeros(n), r.buf)
  /\ UNCHANGED <<stream, width, height, num_frames, animation, kind, info, is_lossy,
                 chunks, memory_limit, scan, validated, buf, calls, somes, cleared,
                 emitted>>

\* WebPDecoder::set_memory_limit (lines 427-429)
SetMemoryLimit ==
  /\ phase = "open"
  /\ \E limit \in MemoryLimits : memory_limit' = limit
  /\ last' = Last("set_memory_limit", "Ok", "", 0, <<>>)
  /\ UNCHANGED <<stream, phase, width, height, num_frames, animation, kind, info,
                 is_lossy, chunks, scan, validated, buf, calls, somes, cleared, emitted>>

\* WebPDecoder::set_background_color (lines 455-464)
SetBackgroundColor ==
  /\ phase = "open"
  /\ \E color \in Colors :
       IF kind = "Extended"
       THEN /\ info' = [info EXCEPT !.background_color = color]
            /\ last' = Last("set_background_color", "Ok", "", 0, <<>>)
       ELSE /\ info' = info
            /\ last' = Last("set_background_color", "Err", "InvalidParameter", 0, <<>>)
  /\ UNCHANGED <<stream, phase, width, height, num_frames, animation, kind, is_lossy,
                 chunks, memory_limit, scan, validated, buf, calls, somes, cleared,
                 emitted>>

\* WebPDecoder::icc_profile (lines 492-494)
IccProfile ==
  /\ phase = "open"
  /\ \E r \in {read_chunk(stream, chunks, ICCP, memory_limit)} :
       last' = LastOut("icc_profile", IF r.err # "" THEN "Err" ELSE "Ok", r.err, <<>>, r.data)
  /\ UNCHANGED <<stream, phase, width, height, num_frames, animation, kind, info,
                 is_lossy, chunks, memory_limit, scan, validated, buf, calls, somes,
                 cleared, emitted>>

\* WebPDecoder::exif_metadata (lines 497-499)
ExifMetadata ==
  /\ phase = "open"
  /\ \E r \in {read_chunk(stream, chunks, EXIF, memory_limit)} :
       last' = LastOut("exif_metadata", IF r.err # "" THEN "Err" ELSE "Ok", r.err, <<>>, r.data)
  /\ UNCHANGED <<stream, phase, width, height, num_frames, animation, kind, info,
                 is_lossy, chunks, memory_limit, scan, validated, buf, calls, somes,
                 cleared, emitted>>

\* WebPDecoder::xmp_metadata (lines 502-504)
XmpMetadata ==
  /\ phase = "open"
  /\ \E r \in {read_chunk(stream, chunks, XMP, memory_limit)} :
       last' = LastOut("xmp_metadata", IF r.err # "" THEN "Err" ELSE "Ok", r.err, <<>>, r.data)
  /\ UNCHANGED <<stream, phase, width, height, num_frames, animation, kind, info,
                 is_lossy, chunks, memory_limit, scan, validated, buf, calls, somes,
                 cleared, emitted>>

\* stills of each kind, animations with well-formed and with nested frame
\* chunks, and the containers of the cross-validation and of the edge cases
OpsFiles ==
  { RiffFile(MetaChunk("VP8")), RiffFile(MetaChunk("VP8L")),
    RiffFile(Vp8x({"alpha"}, 1, 1) \o Chunk(FourCC.ALPH, <<0, 7>>) \o MetaChunk("VP8")) }
  \cup { AnimFile(sh, 1, ks, n) :
           sh \in AnimShapes, ks \in {<<"V">>, <<"L", "Ld">>}, n \in BOOLEAN }
  \cup FlagFiles \cup EdgeFiles

InitOps ==
  /\ stream \in OpsFiles
  /\ phase = "fresh"
  /\ width = 0 /\ height = 0 /\ num_frames = 0
  /\ animation = AnimationDefault
  /\ kind = "Lossy" /\ info = NoInfo /\ is_lossy = FALSE
  /\ chunks = EmptyMap
  /\ memory_limit = UsizeMax
  /\ scan = <<>> /\ validated = FALSE
  /\ buf = <<>>
  /\ last = Last("none", "", "", 0, <<>>)
  /\ calls = 0 /\ somes = 0
  /\ cleared = None /\ emitted = None

NextOps ==
  \/ New
  \/ ReadFrame
  \/ ReadImage
  \/ SetMemoryLimit
  \/ SetBackgroundColor
  \/ IccProfile
  \/ ExifMetadata
  \/ XmpMetadata

SpecOps == InitOps /\ [][NextOps]_vars

(***************************************************************************)
(* Animations whose canvas takes 2^32 bytes or more: width * height fits   *)
(* 32 bits, width * height * 4 does not.                                   *)
(***************************************************************************)
\* 32768 * 32768 = 2^30, 13325 * 80581 = 2^30 + 1, 354 * 3033169 = 2^30 + 2
LargeShapes == {<<32768, 32768, {"anim"}>>, <<13325, 80581, {"anim"}>>,
                <<354, 3033169, {"anim"}>>}

LargeFiles ==
  { AnimFile(sh, l, ks, TRUE) : sh \in LargeShapes, l \in 0 .. MaxLoops, ks \in FrameSeqs }

InitLarge ==
  /\ stream \in LargeFiles
  /\ phase = "fresh"
  /\ width = 0 /\ height = 0 /\ num_frames = 0
  /\ animation = AnimationDefault
  /\ kind = "Lossy" /\ info = NoInfo /\ is_lossy = FALSE
  /\ chunks = EmptyMap
  /\ memory_limit = UsizeMax
  /\ scan = <<>> /\ validated = FALSE
  /\ buf = <<>>
  /\ last = Last("none", "", "", 0, <<>>)
  /\ calls = 0 /\ somes = 0
  /\ cleared = None /\ emitted = None

SpecLarge == InitLarge /\ [][Next]_vars

(***************************************************************************)
(* Properties                                                              *)
(***************************************************************************)

\* C1: for an animated container accepted by open with N frames and a finite
\* loop count L >= 1, calls 1..N*L of read_frame each return Some with the
\* composited canvas in the caller's buffer, and call N*L+1 returns None.
\* L is the loop count the ANIM chunk declares; the stream is as long as its
\* RIFF header says and the caller passes a buffer of the canvas's size.
C1_FramesThenNone ==
  (/\ last.op = "read_frame"
   /\ has_animation(D)
   /\ contains_key(chunks, ANIM)
   /\ LE32(SubSeq(stream, 5, 8)) = W(Len(stream) - 8)
   /\ Len(last.inbuf) = width * height * 4)
  => LET L == LE16(Bytes(stream, WAdd(chunks[ANIM].start, W(4)), 2))
     IN  L >= 1 =>
           /\ calls <= num_frames * L =>
                /\ last.res = "Some"
                /\ animation.canvas = Some(buf)
           /\ calls = num_frames * L + 1 => last.res = "None"

\* C2: a read_frame call that returns an error leaves the animation cursor
\* (next_frame, loops_before_done, next_frame_start, dispose_next_frame) and
\* the canvas as they were before the call.
C2_ErrorLeavesAnimation ==
  [][(calls' = calls + 1 /\ last'.res = "Err") => animation' = animation]_vars

\* a frame was composited, then a call failed while decoding the bitstream
C2_Witness ==
  /\ last.op = "read_frame" /\ last.res = "Err"
  /\ last.err = "InconsistentImageSizes"
  /\ somes > 0 /\ IsSome(animation.canvas)

\* C3: when the remaining-loop counter is exactly zero, read_frame returns
\* None and leaves the canvas, the cursor and the caller's buffer unchanged.
C3_NoMoreFrames ==
  [][(calls' = calls + 1 /\ animation.loops_before_done = Some(0))
     => (/\ last'.res = "None"
         /\ animation' = animation
         /\ buf' = last'.inbuf)]_vars

\* read_frame returned None after the frames of the last loop
C3_Witness ==
  /\ last.op = "read_frame" /\ last.res = "None"
  /\ animation.loops_before_done = Some(0)
  /\ somes > 0 /\ Len(last.inbuf) > 0

\* C4: opening an extended container fails with ChunkMissing whenever a
\* feature flag is set and its chunk was not indexed by the scan, for each
\* pair by itself: animation (ANIM and ANMF), ICC (ICCP), EXIF, XMP.
C4_FlagWithoutChunk ==
  validated =>
    LET Indexed(c) == \E i \in DOMAIN scan : scan[i].chunk = c
        Missing == last.op = "new" /\ last.res = "Err" /\ last.err = "ChunkMissing"
    IN  /\ (info.animation /\ ~Indexed(ANIM)) => Missing
        /\ (info.animation /\ ~Indexed(ANMF)) => Missing
        /\ (info.icc_profile /\ ~Indexed(ICCP)) => Missing
        /\ (info.exif_metadata /\ ~Indexed(EXIF)) => Missing
        /\ (info.xmp_metadata /\ ~Indexed(XMP)) => Missing

\* the EXIF flag is the only one whose chunk is absent, and open fails
C4_Witness ==
  /\ validated /\ last.err = "ChunkMissing"
  /\ info.exif_metadata /\ info.icc_profile /\ ~info.animation
  /\ \A i \in DOMAIN scan : scan[i].chunk # EXIF
  /\ \E i \in DOMAIN scan : scan[i].chunk = ICCP
  /\ \E i \in DOMAIN scan : scan[i].chunk = VP8L

\* C5: for a valid lossless still container with header value h,
\* dimensions() is (1 + (h & 0x3FFF), 1 + ((h >> 14) & 0x3FFF)), for every
\* value of the two 14-bit fields, 0x3FFF included.
C5_LosslessDimensions ==
  kind = "Lossless" =>
    dimensions(D) = << 1 + ((stream[22] + 256 * stream[23]) % 16384),
                       1 + (((stream[23] \div 64) + 4 * stream[24]
                             + 1024 * stream[25]) % 16384) >>

\* C6: a lossy still container with a keyframe tag and the 3-byte magic is
\* accepted; dimensions() is (w & 0x3FFF, h & 0x3FFF) for its 16-bit fields,
\* each at most 16383, and the index holds the VP8 chunk's payload range.
C6_LossyDimensions ==
  (/\ phase # "fresh"
   /\ Len(stream) >= 30
   /\ SubSeq(stream, 1, 4) = FourCC.RIFF /\ SubSeq(stream, 9, 16) = FourCC.WEBP \o FourCC.VP8
   /\ stream[21] % 2 = 0 /\ SubSeq(stream, 24, 26) = <<157, 1, 42>>)
  => /\ phase # "failed"
     /\ kind = "Lossy"
     /\ dimensions(D) = << (stream[27] + 256 * stream[28]) % 16384,
                           (stream[29] + 256 * stream[30]) % 16384 >>
     /\ width <= 16383 /\ height <= 16383
     /\ contains_key(chunks, VP8)
     /\ chunks[VP8] = [start |-> W(20),
                       end |-> WAdd(W(20), LE32(SubSeq(stream, 17, 20)))]

\* a lossy container whose width field has a bit above the 14th set
C6_Witness ==
  /\ phase = "open" /\ kind = "Lossy" /\ contains_key(chunks, VP8)
  /\ stream[27] + 256 * stream[28] > 16383
  /\ width = 5

\* C7: the padded size of a chunk is its declared size plus (size & 1),
\* saturating at 2^32 - 1; the extended scan indexes a chunk whose payload
\* starts at `start` with declared size N as [start, start + N) and moves
\* its cursor by 8 + the padded size.
C7_PaddedScan ==
  \A i \in DOMAIN scan :
    LET e == scan[i]
        start == WAdd(e.pos, W(8))
    IN  /\ e.size = LE32(Bytes(stream, WAdd(e.pos, W(4)), 4))
        /\ e.rounded = IF e.size[1] % 2 = 0 \/ e.size = U32Max THEN e.size
                       ELSE WAdd(e.size, W(1))
        /\ e.next = WAdd(start, e.rounded)
        /\ i < Len(scan) => scan[i + 1].pos = e.next
        /\ (\A j \in 1 .. i - 1 : scan[j].chunk # e.chunk)
             => chunks[e.chunk] = [start |-> start, end |-> WAdd(start, e.size)]

\* a chunk of odd size was indexed and the scan went on behind its padding
C7_Witness ==
  \E i \in DOMAIN scan :
    /\ scan[i].size[1] % 2 = 1 /\ scan[i].size # U32Max
    /\ i < Len(scan)
    /\ scan[i + 1].pos = WAdd(scan[i].pos, WAdd(W(9), scan[i].size))
    /\ chunks[scan[i].chunk].end = WAdd(WAdd(scan[i].pos, W(8)), scan[i].size)

\* C8: opening a stream whose first tag is not RIFF fails with
\* RiffSignatureInvalid, and one whose bytes 8..12 are not WEBP fails with
\* WebpSignatureInvalid.
C8_SignatureErrors ==
  (phase # "fresh" /\ Len(stream) >= 12) =>
    /\ SubSeq(stream, 1, 4) # FourCC.RIFF
         => (last.res = "Err" /\ last.err = "RiffSignatureInvalid")
    /\ (SubSeq(stream, 1, 4) = FourCC.RIFF /\ SubSeq(stream, 9, 12) # FourCC.WEBP)
         => (last.res = "Err" /\ last.err = "WebpSignatureInvalid")

\* C9: WebPDecoder::new never panics; it returns Ok or an error value for
\* every stream, and an error for the sample of the regression test.
C9_NewNeverPanics ==
  last.op = "new" =>
    /\ last.res \in {"Ok", "Err"}
    /\ phase \in {"open", "failed"}
    /\ stream = add_with_overflow_size => last.res = "Err"
    /\ (info.animation /\ last.res = "Ok") => contains_key(chunks, ANMF)

\* a declared size of 2^32 - 1 was scanned and construction returned
C9_Witness ==
  /\ last.op = "new" /\ last.res \in {"Ok", "Err"}
  /\ \E i \in DOMAIN scan : scan[i].size = U32Max

\* C10: for an animated container accepted by open, read_frame called with a
\* buffer of exactly output_buffer_size() bytes copies the canvas into it,
\* with and without alpha.
C10_OutputBufferSize ==
  (/\ last.op = "read_frame"
   /\ has_animation(D)
   /\ Len(last.inbuf) = output_buffer_size(D)
   /\ last.res \notin {"Err", "None"})
  => /\ last.res = "Some"
     /\ animation.canvas = Some(buf)
     /\ Len(buf) = output_buffer_size(D)

\* C11: after open, is_lossy() is true if and only if some frame uses the
\* lossy codec: for an animated container, iff the sub-chunk that follows the
\* 16-byte frame header of some ANMF chunk is tagged VP8 or ALPH; for a still
\* container, iff its payload is VP8.
C11_IsLossy ==
  phase \in {"open", "panicked"} =>
    (is_lossy <=>
       IF has_animation(D)
       THEN \E i \in DOMAIN scan :
              /\ scan[i].chunk = ANMF
              /\ Readable(stream, WAdd(scan[i].pos, W(24)), 4)
              /\ from_fourcc(Bytes(stream, WAdd(scan[i].pos, W(24)), 4)) \in {VP8, ALPH}
       ELSE kind = "Lossy" \/ \E i \in DOMAIN scan : scan[i].chunk = VP8)

\* C12: after opening an animated container, the index holds the payload
\* range of the first ANMF frame's own VP8 / VP8L / ALPH sub-chunk (the one
\* located after the 16-byte frame header), and read_image then does not
\* fail for want of the first frame's image data.
C12_FirstFrameIndexed ==
  (phase = "open" /\ has_animation(D)) =>
    \A i \in DOMAIN scan :
      ( /\ scan[i].chunk = ANMF
        /\ \A j \in 1 .. i - 1 : scan[j].chunk # ANMF
        /\ Readable(stream, WAdd(scan[i].pos, W(24)), 8)
        /\ from_fourcc(Bytes(stream, WAdd(scan[i].pos, W(24)), 4)) \in {VP8, VP8L, ALPH}
        /\ \A j \in DOMAIN scan :
             scan[j].chunk # from_fourcc(Bytes(stream, WAdd(scan[i].pos, W(24)), 4)) )
      => /\ contains_key(chunks, from_fourcc(Bytes(stream, WAdd(scan[i].pos, W(24)), 4)))
         /\ chunks[from_fourcc(Bytes(stream, WAdd(scan[i].pos, W(24)), 4))]
              = Range(WAdd(scan[i].pos, W(32)),
                      WAdd(WAdd(scan[i].pos, W(32)),
                           LE32(Bytes(stream, WAdd(scan[i].pos, W(28)), 4))))
         /\ (last.op = "read_image" /\ last.res = "Err") => last.err # "ChunkMissing"

\* C13: a call of set_background_color on a container that is not both
\* extended and animated fails with InvalidParameter and leaves the container
\* info as it was; on an animated extended container it succeeds and stores
\* the colour that clear_color_of hands to later read_frame calls.
C13_BackgroundOnlyAnimated ==
  [][ last'.op = "set_background_color" =>
        IF has_animation(D)
        THEN /\ last'.res = "Ok"
             /\ info'.background_color \in Colors
             /\ animation'.dispose_next_frame =>
                  clear_color_of([D EXCEPT !.info = info']) = Some(info'.background_color)
        ELSE /\ last'.res = "Err"
             /\ last'.err = "InvalidParameter"
             /\ info' = info ]_vars

\* C14 (as stated): icc_profile, exif_metadata and xmp_metadata return None
\* when the chunk is not in the index, MemoryLimitExceeded when the indexed
\* range is longer than the memory limit, and otherwise exactly the bytes of
\* the indexed range.
C14_MetadataAsStated ==
  \A p \in {<<"icc_profile", ICCP>>, <<"exif_metadata", EXIF>>, <<"xmp_metadata", XMP>>} :
    last.op = p[1] =>
      IF ~contains_key(chunks, p[2])
      THEN last.res = "Ok" /\ last.out = None
      ELSE IF WLt(memory_limit, WSub(chunks[p[2]].end, chunks[p[2]].start))
           THEN last.res = "Err" /\ last.err = "MemoryLimitExceeded"
           ELSE /\ last.res = "Ok"
                /\ WLe(chunks[p[2]].end, W(Len(stream)))
                /\ last.out = Some(SubSeq(stream, chunks[p[2]].start[1] + 1,
                                          chunks[p[2]].end[1]))

\* C14 (amended): as above, but when the indexed range is not wholly inside
\* the stream the call fails with an I/O error; the limit is unbounded until
\* set_memory_limit is called, and the outcome depends on the limit in force
\* at the call only.
C14_Metadata ==
  /\ last.op = "new" => memory_limit = UsizeMax
  /\ \A p \in {<<"icc_profile", ICCP>>, <<"exif_metadata", EXIF>>, <<"xmp_metadata", XMP>>} :
       last.op = p[1] =>
         IF ~contains_key(chunks, p[2])
         THEN last.res = "Ok" /\ last.out = None
         ELSE IF WLt(memory_limit, WSub(chunks[p[2]].end, chunks[p[2]].start))
              THEN last.res = "Err" /\ last.err = "MemoryLimitExceeded"
              ELSE IF WLe(chunks[p[2]].end, W(Len(stream)))
                   THEN /\ last.res = "Ok"
                        /\ last.out = Some(SubSeq(stream, chunks[p[2]].start[1] + 1,
                                                  chunks[p[2]].end[1]))
                   ELSE last.res = "Err" /\ last.err = "IoError"

\* an EXIF payload of 5 bytes refused under a limit of 4 bytes
C14_Witness ==
  /\ last.op = "exif_metadata" /\ last.err = "MemoryLimitExceeded"
  /\ memory_limit = W(4)
  /\ contains_key(chunks, EXIF)
  /\ WSub(chunks[EXIF].end, chunks[EXIF].start) = W(5)

\* C15: while an open animated decoder of a complete file (its RIFF size is
\* the size of the stream) has frames left to return, next_frame_start is the
\* offset of the chunk header (tag and size) of the ANMF chunk number
\* next_frame in scan order.
C15_NextFrameStart ==
  ( /\ phase = "open" /\ has_animation(D) /\ animation.loops_before_done # Some(0)
    /\ W(Len(stream)) = WAdd(LE32(Bytes(stream, W(4), 4)), W(8)) ) =>
    LET anmf == SelectSeq(scan, LAMBDA e : e.chunk = ANMF)
    IN  /\ animation.next_frame < Len(anmf)
        /\ anmf[animation.next_frame + 1].pos = animation.next_frame_start

\* C16: when read_frame returns a frame, the clear colour it passed to
\* compositing is the container's background colour if no frame was returned
\* before, or the frame returned before had its disposal bit set or was the
\* last of a pass; otherwise no clear colour is passed.
C16_ClearColor ==
  [][ (last'.op = "read_frame" /\ last'.res = "Some" /\ somes' = somes + 1) =>
        cleared' = IF emitted = None \/ emitted[1].dispose \/ emitted[1].wrapped
                   THEN Some(info.background_color)
                   ELSE None ]_vars

\* a second frame composited over the canvas the first frame left
C16_Witness ==
  /\ last.op = "read_frame" /\ last.res = "Some"
  /\ somes >= 2
  /\ cleared = None
  /\ emitted # None /\ emitted[1].dispose

\* C17: read_frame returns a frame only if the sub-frame it decoded, on the
\* lossy, the lossless and the alpha-then-lossy path alike, has the width
\* and height declared in the ANMF frame header.
C17_SizesChecked ==
  [][ (last'.op = "read_frame" /\ last'.res = "Some" /\ calls' = calls + 1) =>
        LET p0    == animation.next_frame_start
            h     == read_chunk_header(stream, WAdd(p0, W(24)))
            start == IF h.chunk = ALPH THEN WAdd(WAdd(p0, W(40)), h.rounded)
                     ELSE WAdd(p0, W(32))
            data  == Take(stream, start, h.size)
            frame == IF h.chunk = VP8L THEN LosslessDecoder_decode_frame(data)
                     ELSE Vp8Decoder_decode_frame(data)
        IN  /\ frame.err = ""
            /\ frame.width = LE24(Bytes(stream, WAdd(p0, W(14)), 3)) + 1
            /\ frame.height = LE24(Bytes(stream, WAdd(p0, W(17)), 3)) + 1 ]_vars

\* C18: read_frame returns a frame only if its first nested sub-chunk, with
\* its declared padded size, the 8 bytes of its header and the 16 bytes of
\* the frame header, fits inside the declared size of the ANMF chunk.
C18_SubChunkFits ==
  [][ (last'.op = "read_frame" /\ last'.res = "Some" /\ calls' = calls + 1) =>
        LET p0 == animation.next_frame_start
        IN  WLe(WAdd(read_chunk_header(stream, WAdd(p0, W(24))).rounded, W(24)),
                read_chunk_header(stream, p0).size) ]_vars

\* C19: read_frame returns a frame whose first nested sub-chunk is ALPH only
\* if the chunk that follows the ALPH chunk is tagged VP8, and it returns a
\* frame only if the first nested tag is VP8, VP8L or ALPH.
C19_AlphaThenLossy ==
  [][ (last'.op = "read_frame" /\ last'.res = "Some" /\ calls' = calls + 1) =>
        LET p0 == animation.next_frame_start
            h  == read_chunk_header(stream, WAdd(p0, W(24)))
        IN  /\ h.chunk \in {VP8, VP8L, ALPH}
            /\ h.chunk = ALPH =>
                 read_chunk_header(stream, WAdd(WAdd(p0, W(32)), h.rounded)).chunk = VP8 ]_vars

\* C20: when read_frame has read an ANMF header and the four rectangle
\* fields, it returns FrameOutsideImage if x + width exceeds the canvas width
\* or y + height the canvas height (x, y twice the 3-byte field, width, height
\* the 3-byte field plus one); otherwise, a flags byte with one of its top 6
\* bits set is rejected with InfoBitsInvalid; so a frame is returned only if
\* its rectangle lies inside the canvas and those bits are clear.
C20_FrameInsideImage ==
  [][ ( /\ last'.op = "read_frame" /\ calls' = calls + 1
        /\ has_animation(D) /\ animation.loops_before_done # Some(0)
        /\ read_chunk_header(stream, animation.next_frame_start).ok
        /\ read_chunk_header(stream, animation.next_frame_start).chunk = ANMF
        /\ WLe(W(32), read_chunk_header(stream, animation.next_frame_start).size)
        /\ Readable(stream, WAdd(animation.next_frame_start, W(8)), 12) ) =>
        LET fp      == WAdd(animation.next_frame_start, W(8))
            outside == \/ 2 * LE24(Bytes(stream, fp, 3))
                            + LE24(Bytes(stream, WAdd(fp, W(6)), 3)) + 1 > width
                       \/ 2 * LE24(Bytes(stream, WAdd(fp, W(3)), 3))
                            + LE24(Bytes(stream, WAdd(fp, W(9)), 3)) + 1 > height
            top6    == Bytes(stream, WAdd(fp, W(15)), 1)[1] \div 4
        IN  /\ outside => last'.res = "Err" /\ last'.err = "FrameOutsideImage"
            /\ (~outside /\ Readable(stream, fp, 16) /\ top6 # 0) =>
                 last'.res = "Err" /\ last'.err = "InfoBitsInvalid"
            /\ last'.res = "Some" =>
                 ~outside /\ Readable(stream, fp, 16) /\ top6 = 0 ]_vars

\* a frame at x = 2 on a canvas one pixel wide, refused
C20_Witness ==
  /\ last.op = "read_frame" /\ last.err = "FrameOutsideImage"
  /\ width = 1
  /\ Readable(stream, WAdd(animation.next_frame_start, W(8)), 12)
  /\ LE24(Bytes(stream, WAdd(animation.next_frame_start, W(8)), 3)) = 1

\* C21: the extended scan indexes the chunks it meets one behind the other
\* from the end of the VP8X chunk, every one of a known tag, and ends at the
\* first header of unknown tag: the frame count is the number of ANMF chunks
\* it indexed, and when it indexed no ANMF chunk the index holds the tags it
\* indexed and no other.
C21_UnknownEndsScan ==
  (validated \/ scan # <<>>) =>
    /\ \A i \in DOMAIN scan :
         /\ scan[i].pos = IF i = 1
                          THEN WAdd(W(20), chunk_size_rounded_of(LE32(Bytes(stream, W(16), 4))))
                          ELSE scan[i - 1].next
         /\ scan[i].chunk = from_fourcc(Bytes(stream, scan[i].pos, 4))
         /\ ~is_unknown(scan[i].chunk)
    /\ num_frames = Cardinality({i \in DOMAIN scan : scan[i].chunk = ANMF})
    /\ (\A i \in DOMAIN scan : scan[i].chunk # ANMF) =>
         DOMAIN chunks = {scan[i].chunk : i \in DOMAIN scan}

\* the scan ended at a chunk of unknown tag with an EXIF chunk behind it, and
\* open failed for want of the EXIF chunk
C21_Witness ==
  /\ validated /\ last.err = "ChunkMissing" /\ info.exif_metadata
  /\ scan # <<>>
  /\ Readable(stream, scan[Len(scan)].next, 20)
  /\ is_unknown(from_fourcc(Bytes(stream, scan[Len(scan)].next, 4)))
  /\ from_fourcc(Bytes(stream, WAdd(scan[Len(scan)].next, W(10)), 4)) = EXIF

\* C22 (as stated): the range the index holds for a tag is the payload of the
\* first occurrence of the tag in stream order, the chunk at the start of the
\* first ANMF payload included: the entry of that chunk's tag starts no later
\* than that chunk's own payload.
C22_FirstInStreamOrder ==
  (phase = "open" /\ contains_key(chunks, ANMF)) =>
    LET h == read_chunk_header(stream, chunks[ANMF].start)
    IN  /\ contains_key(chunks, h.chunk)
        /\ WLe(chunks[h.chunk].start, WAdd(chunks[ANMF].start, W(8)))

\* C22 (amended): the index holds one range per tag, that of the first
\* insertion: for a tag the scan met, the payload of the first chunk of that
\* tag the scan met, whatever follows it in the scan or is read at the first
\* ANMF payload afterwards; for the tag read at the start of the first ANMF
\* payload, that chunk's payload only if the scan met no chunk of the tag.
\* Every ANMF chunk the scan met counts as a frame.
C22_FirstInserted ==
  (validated \/ scan # <<>>) =>
    /\ \A i \in DOMAIN scan :
         (\A j \in 1 .. i - 1 : scan[j].chunk # scan[i].chunk) =>
           /\ contains_key(chunks, scan[i].chunk)
           /\ chunks[scan[i].chunk]
                = Range(WAdd(scan[i].pos, W(8)), WAdd(WAdd(scan[i].pos, W(8)), scan[i].size))
    /\ num_frames = Cardinality({i \in DOMAIN scan : scan[i].chunk = ANMF})
    /\ (phase = "open" /\ contains_key(chunks, ANMF)) =>
         LET h == read_chunk_header(stream, chunks[ANMF].start)
         IN  /\ h.ok /\ contains_key(chunks, h.chunk)
             /\ (\A i \in DOMAIN scan : scan[i].chunk # h.chunk) =>
                  chunks[h.chunk] = Range(WAdd(chunks[ANMF].start, W(8)),
                                          WAdd(WAdd(chunks[ANMF].start, W(8)), h.size))

\* a container with two EXIF chunks was opened, and the index holds the first
C22_Witness ==
  /\ last.op = "new" /\ last.res = "Ok"
  /\ \E i, j \in DOMAIN scan :
       /\ i < j /\ scan[i].chunk = EXIF /\ scan[j].chunk = EXIF
       /\ scan[i].size # scan[j].size
       /\ chunks[EXIF].end = WAdd(WAdd(scan[i].pos, W(8)), scan[i].size)

\* C23: once the extended scan has indexed a chunk, an end of stream it meets
\* (reading the next header, or peeking the header inside an ANMF chunk) ends
\* it as if there were no more chunks: the scan returns no error and the
\* cross-validation of flags and chunks is reached.
C23_EofEndsScan ==
  (last.op = "new" /\ scan # <<>>) => validated


\* C24: with a declared loop count of 0 the remaining-loop counter is None
\* before and after every read_frame call and no call returns None; with a
\* declared count n >= 1 the counter is Some, a call that returns Some on the
\* last frame of a loop lowers it by exactly one, every other returned call
\* leaves it alone, it never goes below zero, and a call that follows a None
\* returns None.
C24_LoopCounter ==
  [][(calls' = calls + 1 /\ has_animation(D) /\ contains_key(chunks, ANIM))
     => LET L == LE16(Bytes(stream, WAdd(chunks[ANIM].start, W(4)), 2))
            before == animation.loops_before_done
            after == animation'.loops_before_done
        IN  /\ L = 0 => /\ before = None /\ after = None
                        /\ last'.res # "None"
            /\ L > 0 =>
                 /\ IsSome(before) /\ IsSome(after)
                 /\ after[1] >= 0
                 /\ after[1] \in {before[1], before[1] - 1}
                 /\ last'.res = "Some" =>
                      after[1] = IF animation.next_frame + 1 >= num_frames
                                 THEN before[1] - 1 ELSE before[1]
                 /\ last'.res \in {"None", "Err"} => after = before
                 /\ (last.op = "read_frame" /\ last.res = "None")
                      => last'.res = "None"]_vars

\* an animation that loops for ever has wrapped around more than MaxLoops times
C24_Witness ==
  /\ last.op = "read_frame" /\ last.res = "Some"
  /\ animation.loops_before_done = None
  /\ animation.next_frame = 0
  /\ somes > MaxLoops * num_frames


\* C25: the canvas is None until a read_frame call has been made, and a
\* canvas that exists holds canvas_width * canvas_height * 4 bytes.
C25_CanvasLength ==
  /\ calls = 0 => animation.canvas = None
  /\ IsSome(animation.canvas)
       => /\ Len(animation.canvas[1]) % 4 = 0
          /\ Len(animation.canvas[1]) \div 4 = width * height

\* C25: a canvas that exists is never dropped, and read_frame keeps its length.
C25_CanvasKept ==
  [][IsSome(animation.canvas)
     => /\ IsSome(animation'.canvas)
        /\ Len(animation'.canvas[1]) = Len(animation.canvas[1])]_vars


====
